---- MODULE Spec2Model ----
(***************************************************************************)
(* Signal/slot resolution of the code browser's generator:                 *)
(* lookUpCandidates and QtSupport::handleSignalOrSlot                      *)
(* (src/generator/qtsupport.cpp).                                          *)
(*                                                                         *)
(* Strings are sequences of one-character strings.  Positions are 0-based, *)
(* as in the source; At(s, i) reads the character at position i.           *)
(***************************************************************************)
EXTENDS Integers, Sequences, FiniteSets, TLC

\* ------------------------------------------------------------------------
\* Bounds of the model
\* ------------------------------------------------------------------------

\* The ghost counter of redirections saturates at this value.
RedirectCap == 3

\* Longest generated argument-list tail after "1f(" (see GeneratedLiterals).
MaxTail == 4

\* ------------------------------------------------------------------------
\* llvm::StringRef helpers
\* ------------------------------------------------------------------------

\* std::string::npos / StringRef::npos: larger than every position.
npos == 1000000

NUL == "\\0"

\* The characters StringRef::trim() strips (the model's literals use ' ' and tab).
Whitespace == {" ", "\t"}

At(s, i) == s[i + 1]

\* A read at position i of a buffer.  At the end of typeString_ (a
\* std::string) the terminating NUL is read.  The bytes behind the literal
\* are not fixed by the program; NUL stands for them here, and no verdict of
\* a comparison in this universe depends on them: a match of "nsigned " ends
\* before the ',' or ')' that follows the fragment inside the signature.
CharAt(buf, i) == IF i >= 0 /\ i < Len(buf) THEN buf[i + 1] ELSE NUL

\* StringRef::find(c): position of the first c, or npos.
Find(s, c) ==
    IF \E i \in 1..Len(s) : s[i] = c
    THEN (CHOOSE i \in 1..Len(s) : s[i] = c /\ \A j \in 1..(i - 1) : s[j] # c) - 1
    ELSE npos

\* StringRef::substr(b, n) / slice(b, e) as the half-open range [b, e) of s.
Slice(s, b, e) == IF b < e THEN SubSeq(s, b + 1, e) ELSE <<>>

\* StringRef::trim() on the range [b, e) of buf: the trimmed range.
RECURSIVE TrimLeft(_, _, _)
TrimLeft(buf, b, e) ==
    IF b < e /\ At(buf, b) \in Whitespace THEN TrimLeft(buf, b + 1, e) ELSE b

RECURSIVE TrimRight(_, _, _)
TrimRight(buf, b, e) ==
    IF b < e /\ At(buf, e - 1) \in Whitespace THEN TrimRight(buf, b, e - 1) ELSE e

TrimRange(buf, b, e) ==
    LET nb == TrimLeft(buf, b, e) IN [beg |-> nb, end |-> TrimRight(buf, nb, e)]

Trim(s) == LET r == TrimRange(s, 0, Len(s)) IN Slice(s, r.beg, r.end)

\* StringRef::starts_with / ends_with on the range [b, e) of buf.
StartsWith(buf, b, e, p) ==
    e - b >= Len(p) /\ \A k \in 1..Len(p) : At(buf, b + k - 1) = p[k]

EndsWith(buf, b, e, p) ==
    e - b >= Len(p) /\ \A k \in 1..Len(p) : At(buf, e - Len(p) + k - 1) = p[k]

\* ------------------------------------------------------------------------
\* Texts
\* ------------------------------------------------------------------------

T_int == <<"i", "n", "t">>
T_uint == <<"u", "i", "n", "t">>
T_long == <<"l", "o", "n", "g">>
T_ulong == <<"u", "l", "o", "n", "g">>
T_unsigned_int == <<"u", "n", "s", "i", "g", "n", "e", "d", " ", "i", "n", "t">>
T_unsigned_long == <<"u", "n", "s", "i", "g", "n", "e", "d", " ", "l", "o", "n", "g">>
T_QString == <<"Q", "S", "t", "r", "i", "n", "g">>
T_QStringList == <<"Q", "S", "t", "r", "i", "n", "g", "L", "i", "s", "t">>
T_i == <<"i">>

\* Printed as clang prints them, and as a normalized signature spells them.
T_QMap == <<"Q", "M", "a", "p", "<", "i", "n", "t", ",", " ", "Q", "S", "t", "r", "i", "n", "g", ">">>
T_fnptr == <<"v", "o", "i", "d", " ", "(", "*", ")", "(", "i", "n", "t", ",", " ", "i", "n", "t", ")">>
A_QMap == <<"Q", "M", "a", "p", "<", "i", "n", "t", ",", "Q", "S", "t", "r", "i", "n", "g", ">">>
A_fnptr == <<"v", "o", "i", "d", "(", "*", ")", "(", "i", "n", "t", ",", "i", "n", "t", ")">>

\* The literal compared against at line 261.
QPrivateSignal == <<"Q", "P", "r", "i", "v", "a", "t", "e", "S", "i", "g", "n", "a", "l">>

\* The literal of lines 225 and 228.
NsignedSp == <<"n", "s", "i", "g", "n", "e", "d", " ">>

\* The literal of line 185.
ConstSp == <<"c", "o", "n", "s", "t", " ">>

N_increment == <<"i", "n", "c", "r", "e", "m", "e", "n", "t">>
N_slotName == <<"s", "l", "o", "t", "N", "a", "m", "e">>
N_d_func == <<"d", "_", "f", "u", "n", "c">>
N_f == <<"f">>
N_g == <<"g">>
N_h == <<"h">>
N_k == <<"k">>
N_m == <<"m">>
N_n == <<"n">>
N_t == <<"t">>
N_x == <<"x">>

\* ------------------------------------------------------------------------
\* The declaration universe (what clang's AST answers)
\* ------------------------------------------------------------------------

NoClass == "NoClass"
NoMethod == "NoMethod"

\* A parameter type: its unqualified printed text, whether it is a reference,
\* and whether it (its referent, for a reference) is const-qualified.
PlainT(t) == [text |-> t, ref |-> FALSE, const |-> FALSE]
ConstT(t) == [text |-> t, ref |-> FALSE, const |-> TRUE]
RefT(t) == [text |-> t, ref |-> TRUE, const |-> FALSE]
ConstRefT(t) == [text |-> t, ref |-> TRUE, const |-> TRUE]

\* A method with an identifier; minReq is getMinRequiredArguments().
Decl(name, params, minReq) ==
    [ident |-> TRUE, name |-> name, params |-> params, minReq |-> minReq,
     retNull |-> FALSE, pointee |-> NoClass]

\* A zero-argument accessor d_func returning a pointer to class c
\* (NoClass: the result type is not a pointer to a class).
Accessor(c) ==
    [ident |-> TRUE, name |-> N_d_func, params |-> <<>>, minReq |-> 0,
     retNull |-> FALSE, pointee |-> c]

\* A method without identifier (a constructor, an operator).
Unnamed ==
    [ident |-> FALSE, name |-> <<>>, params |-> <<>>, minReq |-> 0,
     retNull |-> FALSE, pointee |-> NoClass]

IntT == PlainT(T_int)
CharT == PlainT(T_i)
SentinelT == PlainT(QPrivateSignal)

MethodTable ==
    [m \in {"Counter::Counter"} |-> Unnamed] @@
    ( "Counter::increment()" :> Decl(N_increment, <<>>, 0) ) @@
    ( "Counter::increment(int)" :> Decl(N_increment, <<IntT>>, 1) ) @@
    ( "A::d_func" :> Accessor("B") ) @@
    ( "B::slotName(int)" :> Decl(N_slotName, <<IntT>>, 1) ) @@
    ( "Self::d_func" :> Accessor("Self") ) @@
    ( "P::d_func" :> Accessor("Q") ) @@
    ( "Q::d_func" :> Accessor("P") ) @@
    ( "R1::d_func" :> Accessor("R2") ) @@
    ( "R2::d_func" :> Accessor("B") ) @@
    ( "D::d_func" :> Accessor("B") ) @@
    ( "E::d_func" :> Accessor("B") ) @@
    ( "N1::d_func" :> [Accessor("B") EXCEPT !.retNull = TRUE] ) @@
    ( "N2::d_func" :> Accessor(NoClass) ) @@
    ( "V::d_func" :> Accessor("Und") ) @@
    ( "Derived::f(int)" :> Decl(N_f, <<IntT>>, 1) ) @@
    ( "Base::f(int)" :> Decl(N_f, <<IntT>>, 1) ) @@
    ( "Base::f()" :> Decl(N_f, <<>>, 0) ) @@
    ( "F2::d_func" :> Accessor("B") ) @@
    ( "S::g(QPrivateSignal)" :> Decl(N_g, <<SentinelT>>, 1) ) @@
    ( "S::g(int,QPrivateSignal)" :> Decl(N_g, <<IntT, SentinelT>>, 2) ) @@
    ( "S::h(int,int)" :> Decl(N_h, <<IntT, IntT>>, 2) ) @@
    ( "S::k(int,int=0)" :> Decl(N_k, <<IntT, IntT>>, 1) ) @@
    ( "S::k(int)" :> Decl(N_k, <<IntT>>, 1) ) @@
    ( "S::m(int,int,QPrivateSignal)" :> Decl(N_m, <<IntT, IntT, SentinelT>>, 3) ) @@
    ( "S::n(QPrivateSignal,int)" :> Decl(N_n, <<SentinelT, IntT>>, 2) ) @@
    ( "S::n(const QPrivateSignal&)" :> Decl(N_n, <<ConstRefT(QPrivateSignal)>>, 1) ) @@
    ( "U::t(ulong)" :> Decl(N_t, <<PlainT(T_ulong)>>, 1) ) @@
    ( "U::t(int)" :> Decl(N_t, <<IntT>>, 1) ) @@
    ( "U::t(uint)" :> Decl(N_t, <<PlainT(T_uint)>>, 1) ) @@
    ( "U::t(unsigned int)" :> Decl(N_t, <<PlainT(T_unsigned_int)>>, 1) ) @@
    ( "U::t(long)" :> Decl(N_t, <<PlainT(T_long)>>, 1) ) @@
    ( "U::t(unsigned long)" :> Decl(N_t, <<PlainT(T_unsigned_long)>>, 1) ) @@
    ( "U::x(QStringList)" :> Decl(N_x, <<PlainT(T_QStringList)>>, 1) ) @@
    ( "U::x(const QString&)" :> Decl(N_x, <<ConstRefT(T_QString)>>, 1) ) @@
    ( "U::x(QString&)" :> Decl(N_x, <<RefT(T_QString)>>, 1) ) @@
    ( "U::x(const int)" :> Decl(N_x, <<ConstT(T_int)>>, 1) ) @@
    ( "G::f(i,i)" :> Decl(N_f, <<CharT, CharT>>, 2) ) @@
    ( "G::f()" :> Decl(N_f, <<>>, 0) ) @@
    ( "G::f(i)" :> Decl(N_f, <<CharT>>, 1) ) @@
    ( "G::f(i<>)" :> Decl(N_f, <<PlainT(<<"i", "<", ">">>)>>, 1) ) @@
    ( "G::f(i,i=0)" :> Decl(N_f, <<CharT, CharT>>, 1) ) @@
    ( "M::f(QMap<int,QString>,int)" :> Decl(N_f, <<PlainT(T_QMap), IntT>>, 2) ) @@
    ( "M::f(void(*)(int,int))" :> Decl(N_f, <<PlainT(T_fnptr)>>, 1) )

MethodIds == DOMAIN MethodTable

\* A class: whether a definition is available (getDefinition()), its number
\* of bases, the record of its first base (NoClass: the base type has no
\* record declaration), and its methods in declaration order.
Class(numBases, base, methods) ==
    [defined |-> TRUE, numBases |-> numBases, base |-> base, methods |-> methods]

ClassTable ==
    ( "Counter" :> Class(0, NoClass,
          <<"Counter::Counter", "Counter::increment()", "Counter::increment(int)">>) ) @@
    ( "A" :> Class(0, NoClass, <<"A::d_func">>) ) @@
    ( "B" :> Class(0, NoClass, <<"B::slotName(int)">>) ) @@
    ( "Self" :> Class(0, NoClass, <<"Self::d_func">>) ) @@
    ( "P" :> Class(0, NoClass, <<"P::d_func">>) ) @@
    ( "Q" :> Class(0, NoClass, <<"Q::d_func">>) ) @@
    ( "R1" :> Class(0, NoClass, <<"R1::d_func">>) ) @@
    ( "R2" :> Class(0, NoClass, <<"R2::d_func">>) ) @@
    ( "D" :> Class(1, "Und", <<"D::d_func">>) ) @@
    ( "E" :> Class(1, NoClass, <<"E::d_func">>) ) @@
    ( "N1" :> Class(0, NoClass, <<"N1::d_func">>) ) @@
    ( "N2" :> Class(0, NoClass, <<"N2::d_func">>) ) @@
    ( "V" :> Class(0, NoClass, <<"V::d_func">>) ) @@
    ( "Und" :> [defined |-> FALSE, numBases |-> 0, base |-> NoClass, methods |-> <<>>] ) @@
    ( "Base" :> Class(0, NoClass, <<"Base::f(int)", "Base::f()">>) ) @@
    ( "Derived" :> Class(2, "Base", <<"Derived::f(int)">>) ) @@
    ( "F2" :> Class(1, "Base", <<"F2::d_func">>) ) @@
    ( "S" :> Class(0, NoClass,
          <<"S::g(QPrivateSignal)", "S::g(int,QPrivateSignal)", "S::h(int,int)",
            "S::k(int,int=0)", "S::k(int)", "S::m(int,int,QPrivateSignal)",
            "S::n(QPrivateSignal,int)", "S::n(const QPrivateSignal&)">>) ) @@
    ( "U" :> Class(0, NoClass,
          <<"U::t(ulong)", "U::t(int)", "U::t(uint)", "U::t(unsigned int)", "U::t(long)",
            "U::t(unsigned long)",
            "U::x(QStringList)", "U::x(const QString&)", "U::x(QString&)",
            "U::x(const int)">>) ) @@
    ( "G" :> Class(0, NoClass,
          <<"G::f(i,i)", "G::f()", "G::f(i)", "G::f(i<>)", "G::f(i,i=0)">>) ) @@
    ( "M" :> Class(0, NoClass,
          <<"M::f(QMap<int,QString>,int)", "M::f(void(*)(int,int))">>) )

ClassNames == DOMAIN ClassTable

\* ------------------------------------------------------------------------
\* Inputs: the string literal of the SIGNAL/SLOT expression
\* ------------------------------------------------------------------------

NamedLiterals ==
    {
      <<"i", "n", "c", "r", "e", "m", "e", "n", "t", "(", "i", "n", "t", ")">>,   \* 'increment(int)'
      <<"i", "n", "c", "r", "e", "m", "e", "n", "t", "(", ")">>,   \* 'increment()'
      <<"i", "n", "c", "r", "e", "m", "e", "n", "t", "(", "Q", "S", "t", "r", "i", "n", "g", ")">>,   \* 'increment(QString)'
      <<"1", "i", "n", "c", "r", "e", "m", "e", "n", "t", "(", "i", "n", "t", ")">>,   \* '1increment(int)'
      <<"1", "i", "n", "c", "r", "e", "m", "e", "n", "t", "(", ")">>,   \* '1increment()'
      <<"1", "i", "n", "c", "r", "e", "m", "e", "n", "t", "(", "Q", "S", "t", "r", "i", "n", "g", ")">>,   \* '1increment(QString)'
      <<"2", "i", "n", "c", "r", "e", "m", "e", "n", "t", "(", "i", "n", "t", ")">>,   \* '2increment(int)'
      <<"2", "i", "n", "c", "r", "e", "m", "e", "n", "t", "(", ")">>,   \* '2increment()'
      <<"2", "i", "n", "c", "r", "e", "m", "e", "n", "t", "(", "Q", "S", "t", "r", "i", "n", "g", ")">>,   \* '2increment(QString)'
      <<"s", "l", "o", "t", "N", "a", "m", "e", "(", "i", "n", "t", ")">>,   \* 'slotName(int)'
      <<"1", "s", "l", "o", "t", "N", "a", "m", "e", "(", "i", "n", "t", ")">>,   \* '1slotName(int)'
      <<"2", "s", "l", "o", "t", "N", "a", "m", "e", "(", "i", "n", "t", ")">>,   \* '2slotName(int)'
      <<"1", "f", "(", "i", "n", "t", ")">>,   \* '1f(int)'
      <<"1", "f", "(", ")">>,   \* '1f()'
      <<"2", "f", "(", " ", "i", "n", "t", " ", ")">>,   \* '2f( int )'
      <<" ", " ", "1", "f", "(", "i", "n", "t", ")", " ", "\t">>,   \* '  1f(int) \t'
      <<"1", "f", "(", "i", "n", "t", ")", NUL, "j", "u", "n", "k">>,   \* '1f(int)\x00junk'
      <<"1", "f", "(", "i", "n", "t", ")", "x">>,   \* '1f(int)x'
      <<"1", "f", "(", "i", "n", "t", ",", ")">>,   \* '1f(int,)'
      <<"f", "(", ")">>,   \* 'f()'
      <<"1", "f", "(">>,   \* '1f('
      <<"1", "f", ")", "(">>,   \* '1f)('
      <<"1", "f", ")", ")">>,   \* '1f))'
      <<"(", "i", "n", "t", ")">>,   \* '(int)'
      <<"1", "(", "i", "n", "t", ")">>,   \* '1(int)'
      <<"f", "(", "Q", "M", "a", "p", "<", "i", "n", "t", ",", "Q", "S", "t", "r", "i", "n", "g">>,   \* 'f(QMap<int,QString'
      <<"1", "f", "(", "Q", "M", "a", "p", "<", "i", "n", "t", ",", "Q", "S", "t", "r", "i", "n", "g">>,   \* '1f(QMap<int,QString'
      <<"1", "f", "(", "Q", "M", "a", "p", "<", "i", "n", "t", ",", "Q", "S", "t", "r", "i", "n", "g", ">", ",", "i", "n", "t", ")">>,   \* '1f(QMap<int,QString>,int)'
      <<"1", "g", "(", ")">>,   \* '1g()'
      <<"1", "g", "(", "i", "n", "t", ")">>,   \* '1g(int)'
      <<"1", "h", "(", "i", "n", "t", ")">>,   \* '1h(int)'
      <<"1", "h", "(", "i", "n", "t", ",", "i", "n", "t", ")">>,   \* '1h(int,int)'
      <<"1", "k", "(", "i", "n", "t", ")">>,   \* '1k(int)'
      <<"1", "k", "(", "i", "n", "t", ",", "i", "n", "t", ")">>,   \* '1k(int,int)'
      <<"1", "m", "(", "i", "n", "t", ")">>,   \* '1m(int)'
      <<"1", "n", "(", ")">>,   \* '1n()'
      <<"1", "d", "_", "f", "u", "n", "c", "(", ")">>,   \* '1d_func()'
      <<"1", "t", "(", "u", "n", "s", "i", "g", "n", "e", "d", " ", "i", "n", "t", ")">>,   \* '1t(unsigned int)'
      <<"1", "t", "(", "i", "n", "t", ")">>,   \* '1t(int)'
      <<"1", "t", "(", "u", "i", "n", "t", ")">>,   \* '1t(uint)'
      <<"1", "t", "(", "u", "n", "s", "i", "g", "n", "e", "d", " ", "l", "o", "n", "g", ")">>,   \* '1t(unsigned long)'
      <<"1", "t", "(", "u", "l", "o", "n", "g", ")">>,   \* '1t(ulong)'
      <<"1", "t", "(", "l", "o", "n", "g", ")">>,   \* '1t(long)'
      <<"1", "t", "(", "u", "n", "s", "i", "g", "n", "e", "d", " ", ")">>,   \* '1t(unsigned )'
      <<"1", "t", "(", "c", "o", "n", "s", "t", " ", "u", "n", "s", "i", "g", "n", "e", "d", " ", "&", ")">>,   \* '1t(const unsigned &)'
      <<"1", "x", "(", "Q", "S", "t", "r", "i", "n", "g", ")">>,   \* '1x(QString)'
      <<"1", "x", "(", "c", "o", "n", "s", "t", " ", "Q", "S", "t", "r", "i", "n", "g", " ", "&", ")">>,   \* '1x(const QString &)'
      <<"1", "x", "(", "c", "o", "n", "s", "t", " ", "Q", "S", "t", "r", "i", "n", "g", "&", ")">>,   \* '1x(const QString&)'
      <<"1", "x", "(", "Q", "S", "t", "r", "i", "n", "g", "L", "i", "s", "t", ")">>,   \* '1x(QStringList)'
      <<"1", "x", "(", "i", "n", "t", ")">>,   \* '1x(int)'
      <<"1", "f", "(", "v", "o", "i", "d", "(", "*", ")", "(", "i", "n", "t", ",", "i", "n", "t", ")", ")">>,   \* '1f(void(*)(int,int))'
      <<"1", "f", "(", "Q", "M", "a", "p", "<", "i", "n", "t", ",", "v", "o", "i", "d", "(", "*", ")", "(", "i", "n", "t", ",", "i", "n", "t", ")", ">", ")">>   \* '1f(QMap<int,void(*)(int,int)>)'
    }

\* The text marker name "(" argText ")".
SigText(marker, name, argText) == marker \o name \o <<"(">> \o argText \o <<")">>

\* Every literal "1f(" followed by at most MaxTail characters of this alphabet.
TailAlphabet == {")", ",", "i", "<", ">", " "}

RECURSIVE Tails(_)
Tails(n) ==
    IF n = 0 THEN {<<>>}
    ELSE LET shorter == Tails(n - 1)
         IN shorter \cup {Append(t, c) : t \in {u \in shorter : Len(u) = n - 1}, c \in TailAlphabet}

GeneratedLiterals == {<<"1", "f", "(">> \o t : t \in Tails(MaxTail)}

\* ------------------------------------------------------------------------
\* Queries on declarations
\* ------------------------------------------------------------------------

getNumParams(m) == Len(MethodTable[m].params)

getMinRequiredArguments(m) == MethodTable[m].minReq

\* getParamDecl(i)->getType(), i counted from 0.
getParamType(m, i) == MethodTable[m].params[i + 1]

\* QualType::getAsString(policy): "const T &" for a reference to const T.
getAsString(t) ==
    (IF t.const THEN ConstSp ELSE <<>>) \o t.text \o (IF t.ref THEN <<" ", "&">> ELSE <<>>)

\* "remove const or const &": a reference to a const-qualified type loses the
\* reference, then the local const is removed (a reference has none).
RemoveConstRef(t) ==
    LET nonRef == IF t.ref /\ t.const THEN [t EXCEPT !.ref = FALSE] ELSE t
    IN IF nonRef.ref THEN nonRef ELSE [nonRef EXCEPT !.const = FALSE]

\* typeString of the candidate's parameter arg.
TypeString(m, n) == Trim(getAsString(RemoveConstRef(getParamType(m, n))))

\* ------------------------------------------------------------------------
\* Comparison of an argument fragment with a printed parameter type
\* ------------------------------------------------------------------------

\* Variant of SkipsNsigned: the 9 characters compared for equality with the
\* 8-character literal.
EqualsNsigned(buf, i) ==
    Len(NsignedSp) = 9 /\ \A k \in 1..9 : CharAt(buf, i + k - 1) = NsignedSp[k]

\* llvm::StringRef(it, 9).starts_with("nsigned "): the 8 characters at the
\* cursor, read from the underlying buffer whatever the fragment's end is.
SkipsNsigned(buf, i) == \A k \in 1..Len(NsignedSp) : CharAt(buf, i + k - 1) = NsignedSp[k]

\* The comparison loop.  sigIt runs over [.., sigEnd) of sbuf (the fragment is
\* a slice of the signature's buffer), parIt over [.., parEnd) of pbuf.
\* The result is the pair of cursors when the loop is left.
RECURSIVE CompareLoop(_, _, _, _, _, _)
CompareLoop(sbuf, sigIt, sigEnd, pbuf, parIt, parEnd) ==
    IF sigIt # sigEnd /\ parIt # parEnd
    THEN LET a == CharAt(sbuf, sigIt)
             b == CharAt(pbuf, parIt)
         IN IF a = b THEN CompareLoop(sbuf, sigIt + 1, sigEnd, pbuf, parIt + 1, parEnd)
            ELSE IF a = " " THEN CompareLoop(sbuf, sigIt + 1, sigEnd, pbuf, parIt, parEnd)
            ELSE IF b = " " THEN CompareLoop(sbuf, sigIt, sigEnd, pbuf, parIt + 1, parEnd)
            ELSE IF a = "n" /\ SkipsNsigned(sbuf, sigIt)
                 THEN CompareLoop(sbuf, sigIt + 8, sigEnd, pbuf, parIt, parEnd)
            ELSE IF b = "n" /\ SkipsNsigned(pbuf, parIt)
                 THEN CompareLoop(sbuf, sigIt, sigEnd, pbuf, parIt + 8, parEnd)
            ELSE [sigIt |-> sigIt, parIt |-> parIt]
    ELSE [sigIt |-> sigIt, parIt |-> parIt]

\* One pass through the body of the comparison loop (lines 218-233) with the
\* cursors at sigIt and parIt: the cursors after it, and whether it breaks.
CompareStep(sbuf, sigIt, pbuf, parIt) ==
    LET a == CharAt(sbuf, sigIt)
        b == CharAt(pbuf, parIt)
    IN IF a = b THEN [sigIt |-> sigIt + 1, parIt |-> parIt + 1, break |-> FALSE]
       ELSE IF a = " " THEN [sigIt |-> sigIt + 1, parIt |-> parIt, break |-> FALSE]
       ELSE IF b = " " THEN [sigIt |-> sigIt, parIt |-> parIt + 1, break |-> FALSE]
       ELSE IF a = "n" /\ SkipsNsigned(sbuf, sigIt)
            THEN [sigIt |-> sigIt + 8, parIt |-> parIt, break |-> FALSE]
       ELSE IF b = "n" /\ SkipsNsigned(pbuf, parIt)
            THEN [sigIt |-> sigIt, parIt |-> parIt + 8, break |-> FALSE]
       ELSE [sigIt |-> sigIt, parIt |-> parIt, break |-> TRUE]

\* The cursors at every evaluation of the loop condition of line 217, in order;
\* body tells whether the loop body runs there (and reads *sigIt and *parIt).
RECURSIVE CursorTrace(_, _, _, _, _, _)
CursorTrace(sbuf, sigIt, sigEnd, pbuf, parIt, parEnd) ==
    IF sigIt # sigEnd /\ parIt # parEnd
    THEN LET next == CompareStep(sbuf, sigIt, pbuf, parIt)
         IN <<[sigIt |-> sigIt, parIt |-> parIt, body |-> TRUE]>>
            \o (IF next.break THEN <<>>
                ELSE CursorTrace(sbuf, next.sigIt, sigEnd, pbuf, next.parIt, parEnd))
    ELSE <<[sigIt |-> sigIt, parIt |-> parIt, body |-> FALSE]>>

\* "Did not match" is sigIt != argument.end() || parIt != typeString.end().
TypeTextMatches(sbuf, argBeg, argEnd, typeString) ==
    LET r == CompareLoop(sbuf, argBeg, argEnd, typeString, 0, Len(typeString))
    IN ~(r.sigIt # argEnd \/ r.parIt # Len(typeString))

\* ------------------------------------------------------------------------
\* Tokenizer
\* ------------------------------------------------------------------------

\* The inner loop entered after a '<'.
RECURSIVE SkipTemplate(_, _, _, _)
SkipTemplate(sig, searchPos, depth, templDepth) ==
    IF searchPos < Len(sig) /\ depth >= 0 /\ templDepth >= 0
    THEN LET c == At(sig, searchPos)
         IN IF c \in {"(", "[", "{"} THEN SkipTemplate(sig, searchPos + 1, depth + 1, templDepth)
            ELSE IF c \in {")", "]", "}"} THEN SkipTemplate(sig, searchPos + 1, depth - 1, templDepth)
            ELSE IF c = ">" /\ depth = 0 THEN SkipTemplate(sig, searchPos + 1, depth, templDepth - 1)
            ELSE IF c = "<" /\ depth = 0 THEN SkipTemplate(sig, searchPos + 1, depth, templDepth + 1)
            ELSE SkipTemplate(sig, searchPos + 1, depth, templDepth)
    ELSE searchPos

\* "Find next comma to extract the next argument": searchPos when the loop ends.
RECURSIVE FindTerminator(_, _)
FindTerminator(sig, searchPos) ==
    IF searchPos < Len(sig) /\ At(sig, searchPos) # "," /\ At(sig, searchPos) # ")"
    THEN IF At(sig, searchPos) = "<"
         THEN FindTerminator(sig, SkipTemplate(sig, searchPos + 1, 0, 0))
         ELSE FindTerminator(sig, searchPos + 1)
    ELSE searchPos

\* argument: the trimmed fragment, "const " ... "&" stripped and trimmed again,
\* as a range [beg, end) of the signature.
ArgumentRange(sig, from, to) ==
    LET r == TrimRange(sig, from, to)
    IN IF StartsWith(sig, r.beg, r.end, ConstSp) /\ EndsWith(sig, r.beg, r.end, <<"&">>)
       THEN TrimRange(sig, r.beg + 6, r.end - 1)
       ELSE r

\* signature as a range of the literal: trimmed, and cut at the first NUL.
TrimmedLiteral(lit) == TrimRange(lit, 0, Len(lit))

SignatureRange(lit) ==
    LET r == TrimmedLiteral(lit)
        z == Find(Slice(lit, r.beg, r.end), NUL)
    IN IF z # npos THEN TrimRange(lit, r.beg, r.beg + z) ELSE r

\* Variant of MethodNameOf: the name taken from index 0.
MethodNameFromZero(sig, lParenPos) == Trim(Slice(sig, 0, lParenPos))

\* methodName = signature.slice(1, lParenPos).trim()
MethodNameOf(sig, lParenPos) == Trim(Slice(sig, 1, lParenPos))

\* ------------------------------------------------------------------------
\* Pruning
\* ------------------------------------------------------------------------

\* A candidate stays in the pruning pass of argument arg.
KeptAtArgument(m, n, sbuf, argBeg, argEnd) ==
    /\ ~(getNumParams(m) < n + 1)
    /\ TypeTextMatches(sbuf, argBeg, argEnd, TypeString(m, n))

\* The loop "go over the candidates and prune the impossible ones".
PruneCandidates(cands, n, sbuf, argBeg, argEnd) ==
    SelectSeq(cands, LAMBDA m : KeptAtArgument(m, n, sbuf, argBeg, argEnd))

\* Variant of NeedsMoreArguments: no exemption for the sentinel parameter.
NeedsMoreNoSentinel(m, n) == getMinRequiredArguments(m) > n

\* The predicate of remove_if: "candidates that needs more argument".
NeedsMoreArguments(m, n) ==
    /\ getMinRequiredArguments(m) > n
    /\ ~(getNumParams(m) = n + 1 /\ getAsString(getParamType(m, n)) = QPrivateSignal)

\* Variant of EraseNeedingMore: std::remove_if without the erase, which leaves
\* the old elements behind the kept ones.
RemoveIfWithoutErase(cands, n) ==
    LET kept == SelectSeq(cands, LAMBDA m : ~NeedsMoreArguments(m, n))
    IN kept \o SubSeq(cands, Len(kept) + 1, Len(cands))

\* candidates.erase(std::remove_if(...), candidates.end())
EraseNeedingMore(cands, n) == SelectSeq(cands, LAMBDA m : ~NeedsMoreArguments(m, n))

\* Variant of FrontOf: candidates.back().
BackOf(cands) == cands[Len(cands)]

\* used = candidates.front()
FrontOf(cands) == Head(cands)

\* ------------------------------------------------------------------------
\* Candidate locator: one iteration of the walk
\* ------------------------------------------------------------------------

\* while (classIt) { if (!classIt->getDefinition()) break; ...
WalkContinues(c) == IF c = NoClass THEN FALSE ELSE ClassTable[c].defined

\* The methods of class c pushed to candidates.
NamedMethods(c, name) ==
    SelectSeq(ClassTable[c].methods,
              LAMBDA m : MethodTable[m].ident /\ MethodTable[m].name = name)

IsAccessor(m) ==
    MethodTable[m].ident /\ MethodTable[m].name = N_d_func /\ ~MethodTable[m].retNull

\* d_func after the method loop over class c.
AccessorAfter(c, df) ==
    LET ms == ClassTable[c].methods
        hits == {i \in 1..Len(ms) : IsAccessor(ms[i])}
    IN IF df # NoMethod \/ hits = {} THEN df
       ELSE ms[CHOOSE i \in hits : \A j \in hits : i <= j]

\* "Look in the first base".
FirstBase(c) == IF ClassTable[c].numBases = 0 THEN NoClass ELSE ClassTable[c].base

\* Variant of Redirects: the walk never redirects.
NeverRedirects(df, nextClass, cands) == FALSE

\* Variant of Redirects: also taken when the next class has no definition.
RedirectsAtUndefined(df, nextClass, cands) ==
    df # NoMethod /\ ~WalkContinues(nextClass) /\ cands = <<>>

\* The redirection condition of line 65.
Redirects(df, nextClass, cands) == df # NoMethod /\ nextClass = NoClass /\ cands = <<>>

\* getResultType(d_func)->getPointeeCXXRecordDecl()
PointeeOf(df) == MethodTable[df].pointee

\* ------------------------------------------------------------------------
\* State
\* ------------------------------------------------------------------------

VARIABLES
    pc,          \* position in handleSignalOrSlot / lookUpCandidates
    objClass,    \* the record of obj's type (NoClass: none)
    literal,     \* the bytes of methodLiteral
    charWidth,   \* methodLiteral->getCharByteWidth()
    signature,   \* signature
    tail,        \* the bytes of the literal that follow signature
    methodName,  \* methodName
    classIt,     \* lookUpCandidates: classIt
    d_func,      \* lookUpCandidates: d_func
    candidates,  \* candidates (of the locator, then of the resolver)
    argPos,      \* argPos
    arg,         \* arg
    searchPos,   \* searchPos of the last scan
    argument,    \* argument, a range [beg, end) of signature
    used,        \* used (NoMethod until line 268)
    uses,        \* the declarations handed to annotator.registerUse
    located,     \* history: what lookUpCandidates returned
    nRedirect,   \* history: redirections taken by the walk (saturating)
    redirected,  \* history: the last iteration of the walk took the redirection
    args,        \* history: the fragments compared so far
    compared,    \* history: the comparisons of the last pruning pass
    visited,     \* history: the cursor positions of those comparisons
    filtered     \* history: the final filter was applied

vars == <<pc, objClass, literal, charWidth, signature, tail, methodName, classIt, d_func,
          candidates, argPos, arg, searchPos, argument, used, uses, located, nRedirect,
          redirected, args, compared, visited, filtered>>

locatorVars == <<classIt, d_func, nRedirect, redirected, located>>
inputVars == <<objClass, literal, charWidth>>
parseVars == <<signature, tail, methodName>>
scanVars == <<argPos, arg, searchPos, argument, args, compared, visited>>

NoRange == [beg |-> 0, end |-> 0]

ObjClasses == ClassNames \ {"G"}

Inputs ==
    [cls : ObjClasses, lit : NamedLiterals, width : {1}]
    \cup [cls : {"G"}, lit : GeneratedLiterals, width : {1}]
    \cup [cls : {NoClass, "Counter"}, lit : {<<"1">> \o N_increment \o <<"(", ")">>}, width : {1, 2}]

\* The state at the call of handleSignalOrSlot on an input of the set ins.
InitOn(ins) ==
    /\ \E in \in ins :
          /\ objClass = in.cls
          /\ literal = in.lit
          /\ charWidth = in.width
    /\ pc = "start"
    /\ signature = <<>>
    /\ tail = <<>>
    /\ methodName = <<>>
    /\ classIt = NoClass
    /\ d_func = NoMethod
    /\ candidates = <<>>
    /\ argPos = 0
    /\ arg = 0
    /\ searchPos = 0
    /\ argument = NoRange
    /\ used = NoMethod
    /\ uses = <<>>
    /\ located = <<>>
    /\ nRedirect = 0
    /\ redirected = FALSE
    /\ args = <<>>
    /\ compared = {}
    /\ visited = {}
    /\ filtered = FALSE

\* ------------------------------------------------------------------------
\* handleSignalOrSlot, lines 81-131: the early returns and the front of the
\* signature, up to the call of lookUpCandidates
\* ------------------------------------------------------------------------

\* Variant of Rejected: a missing ')' is not checked.
RejectedButForRParen(cls, lit, width) ==
    LET r0 == TrimmedLiteral(lit)
        r == SignatureRange(lit)
        sig == Slice(lit, r.beg, r.end)
        lParenPos == Find(sig, "(")
        rParenPos == Find(sig, ")")
    IN \/ cls = NoClass
       \/ width # 1
       \/ r0.end - r0.beg < 4
       \/ rParenPos < lParenPos
       \/ lParenPos < 2

\* The conditions of the returns of lines 81-126.
Rejected(cls, lit, width) ==
    LET r0 == TrimmedLiteral(lit)
        r == SignatureRange(lit)
        sig == Slice(lit, r.beg, r.end)
        lParenPos == Find(sig, "(")
        rParenPos == Find(sig, ")")
    IN \/ cls = NoClass
       \/ width # 1
       \/ r0.end - r0.beg < 4
       \/ rParenPos = npos
       \/ rParenPos < lParenPos
       \/ lParenPos < 2

Start ==
    /\ pc = "start"
    /\ LET r == SignatureRange(literal)
           sig == Slice(literal, r.beg, r.end)
           lParenPos == Find(sig, "(")
       IN IF Rejected(objClass, literal, charWidth)
          THEN /\ pc' = "done"
               /\ UNCHANGED <<parseVars, classIt, argPos>>
          ELSE /\ pc' = "lookup"
               /\ signature' = sig
               /\ tail' = Slice(literal, r.end, Len(literal))
               /\ methodName' = MethodNameOf(sig, lParenPos)
               /\ classIt' = objClass
               /\ argPos' = lParenPos + 1
    /\ UNCHANGED <<inputVars, d_func, candidates, arg, searchPos, argument, used, uses,
                   located, nRedirect, redirected, args, compared, visited, filtered>>

\* ------------------------------------------------------------------------
\* lookUpCandidates, lines 47-70
\* ------------------------------------------------------------------------

\* One iteration of while (classIt), lines 48-68.
LookUpIteration ==
    /\ pc = "lookup"
    /\ WalkContinues(classIt)
    /\ LET cands == candidates \o NamedMethods(classIt, methodName)
           df == AccessorAfter(classIt, d_func)
           next == FirstBase(classIt)
       IN /\ candidates' = cands
          /\ IF Redirects(df, next, cands)
             THEN /\ classIt' = PointeeOf(df)
                  /\ d_func' = NoMethod
                  /\ nRedirect' = IF nRedirect < RedirectCap THEN nRedirect + 1 ELSE nRedirect
                  /\ redirected' = TRUE
             ELSE /\ classIt' = next
                  /\ d_func' = df
                  /\ nRedirect' = nRedirect
                  /\ redirected' = FALSE
    /\ UNCHANGED <<pc, inputVars, parseVars, scanVars, used, uses, located, filtered>>

\* The walk ends (classIt is null, or the break of line 49) and the
\* candidates are returned to handleSignalOrSlot (lines 131-140).
LookUpReturn ==
    /\ pc = "lookup"
    /\ ~WalkContinues(classIt)
    /\ located' = candidates
    /\ arg' = 0
    /\ pc' = "scan"
    /\ UNCHANGED <<inputVars, parseVars, classIt, d_func, candidates, argPos, searchPos,
                   argument, used, uses, nRedirect, redirected, args, compared,
                   visited, filtered>>

\* ------------------------------------------------------------------------
\* handleSignalOrSlot, lines 141-248: the argument loop
\* ------------------------------------------------------------------------

\* Lines 141-192: the loop condition holds; the next argument is extracted.
ScanArgument ==
    /\ pc = "scan"
    /\ argPos < Len(signature) /\ candidates # <<>>
    /\ LET sp == FindTerminator(signature, argPos)
           a == ArgumentRange(signature, argPos, sp)
       IN /\ searchPos' = sp
          /\ IF sp = Len(signature)
             THEN /\ pc' = "done"
                  /\ UNCHANGED <<argument, argPos>>
             ELSE /\ argument' = a
                  /\ argPos' = sp + 1
                  /\ IF a.beg = a.end /\ At(signature, sp) = ")" /\ arg = 0
                     THEN pc' = "filter"
                     ELSE pc' = "prune"
    /\ UNCHANGED <<inputVars, parseVars, locatorVars, candidates, arg, used, uses, args,
                   compared, visited, filtered>>

\* Line 141: the loop condition fails.
ScanExit ==
    /\ pc = "scan"
    /\ ~(argPos < Len(signature) /\ candidates # <<>>)
    /\ pc' = "filter"
    /\ UNCHANGED <<inputVars, parseVars, locatorVars, scanVars, candidates, used, uses,
                   filtered>>

\* The comparisons made by the pruning pass of argument n: the fragment, the
\* printed parameter type and the verdict, for each candidate with a parameter n.
Comparisons(cands, n, sbuf, argBeg, argEnd) ==
    {[arg |-> Slice(sbuf, argBeg, argEnd),
      type |-> TypeString(cands[i], n),
      equal |-> TypeTextMatches(sbuf, argBeg, argEnd, TypeString(cands[i], n))] :
        i \in {j \in 1..Len(cands) : ~(getNumParams(cands[j]) < n + 1)}}

\* The cursor positions of the comparisons made by the pruning pass of
\* argument n, each with the bounds of its two operands: the fragment is
\* [sigBeg, sigEnd) of the signature's buffer, the printed type [0, parEnd).
CursorPositions(cands, n, sbuf, argBeg, argEnd) ==
    UNION {
        LET typeString == TypeString(cands[i], n)
            trace == CursorTrace(sbuf, argBeg, argEnd, typeString, 0, Len(typeString))
        IN {[sigBeg |-> argBeg, sigEnd |-> argEnd, parEnd |-> Len(typeString),
             sigIt |-> trace[k].sigIt, parIt |-> trace[k].parIt, body |-> trace[k].body] :
                k \in 1..Len(trace)} :
        i \in {j \in 1..Len(cands) : ~(getNumParams(cands[j]) < n + 1)}}

\* Lines 194-247: the pruning pass of argument arg.
Prune ==
    /\ pc = "prune"
    /\ candidates' = PruneCandidates(candidates, arg, signature \o tail,
                                     argument.beg, argument.end)
    /\ args' = Append(args, argument)
    /\ compared' = Comparisons(candidates, arg, signature \o tail, argument.beg, argument.end)
    /\ visited' = CursorPositions(candidates, arg, signature \o tail, argument.beg,
                                  argument.end)
    /\ arg' = arg + 1
    /\ pc' = IF At(signature, searchPos) = ")" THEN "filter" ELSE "scan"
    /\ UNCHANGED <<inputVars, parseVars, locatorVars, argPos, searchPos, argument, used,
                   uses, filtered>>

\* ------------------------------------------------------------------------
\* handleSignalOrSlot, lines 250-288
\* ------------------------------------------------------------------------

\* Lines 250-268: the final filter and the choice of used.
FinalFilter ==
    /\ pc = "filter"
    /\ IF argPos # Len(signature)
       THEN /\ pc' = "done"
            /\ UNCHANGED <<candidates, used, filtered>>
       ELSE LET rest == EraseNeedingMore(candidates, arg)
            IN /\ candidates' = rest
               /\ filtered' = TRUE
               /\ IF rest = <<>>
                  THEN pc' = "done" /\ used' = used
                  ELSE pc' = "register" /\ used' = FrontOf(rest)
    /\ UNCHANGED <<inputVars, parseVars, locatorVars, scanVars, uses>>

\* Lines 272-288: annotator.registerUse(used, range, ...).
RegisterUse ==
    /\ pc = "register"
    /\ uses' = Append(uses, used)
    /\ pc' = "done"
    /\ UNCHANGED <<inputVars, parseVars, locatorVars, scanVars, candidates, used, filtered>>

Init == InitOn(Inputs)

Next ==
    \/ Start
    \/ LookUpIteration
    \/ LookUpReturn
    \/ ScanArgument
    \/ ScanExit
    \/ Prune
    \/ FinalFilter
    \/ RegisterUse

Spec == Init /\ [][Next]_vars

\* The inputs of the runs checked for termination: every class, with a name
\* that the classes of the private-implementation chains do not declare and
\* names that some classes declare.
WalkLiterals ==
    {SigText(<<"1">>, N_slotName, T_int), SigText(<<"1">>, N_f, T_int),
     SigText(<<"2">>, N_f, <<>>), SigText(<<"1">>, N_increment, T_int),
     SigText(<<"1">>, N_t, T_uint), SigText(<<"1">>, N_g, <<>>),
     SigText(<<"1">>, N_f, <<"i", ",", "i">>), <<"1", "f", "(", "i">>}

WalkInputs == [cls : ClassNames, lit : WalkLiterals, width : {1}]

\* lookUpCandidates is straight-line sequential code: while the walk can
\* make its next iteration, or can return, it does.
FairSpec ==
    /\ InitOn(WalkInputs)
    /\ [][Next]_vars
    /\ WF_vars(LookUpIteration)
    /\ WF_vars(LookUpReturn)

\* ------------------------------------------------------------------------
\* Properties
\* ------------------------------------------------------------------------

\* The one-character codes the SIGNAL and SLOT macros put before the name.
MarkerCodes == {"1", "2"}

\* The outcome of a finished resolution attempt.
Resolved(m) == pc = "done" /\ used = m
NoMatch == pc = "done" /\ used = NoMethod

\* C1, as stated: for class Counter and a narrow string literal (increment() and increment(int)),
\* resolving the string "increment(int)" yields increment(int), "increment()"
\* yields the zero-parameter overload and "increment(QString)" yields NoMatch.
C1_BareSignature ==
    pc = "done" /\ objClass = "Counter" /\ charWidth = 1 =>
        /\ literal = SigText(<<>>, N_increment, T_int) => Resolved("Counter::increment(int)")
        /\ literal = SigText(<<>>, N_increment, <<>>) => Resolved("Counter::increment()")
        /\ literal = SigText(<<>>, N_increment, T_QString) => NoMatch

\* C1, amended: the outcomes are those of the claim when the string carries
\* the one-character code before the name ("1increment(int)"); the bare
\* strings all yield NoMatch, the name looked up being "ncrement".
C1_MarkedSignature ==
    pc = "done" /\ objClass = "Counter" /\ charWidth = 1 =>
        /\ \A c \in MarkerCodes :
              /\ literal = SigText(<<c>>, N_increment, T_int)
                    => Resolved("Counter::increment(int)")
              /\ literal = SigText(<<c>>, N_increment, <<>>)
                    => Resolved("Counter::increment()")
              /\ literal = SigText(<<c>>, N_increment, T_QString) => NoMatch
        /\ literal \in {SigText(<<>>, N_increment, a) : a \in {T_int, <<>>, T_QString}}
              => NoMatch /\ methodName = Tail(N_increment)

C1_Witness ==
    /\ objClass = "Counter"
    /\ literal = SigText(<<"1">>, N_increment, T_int)
    /\ Resolved("Counter::increment(int)")
    /\ located = <<"Counter::increment()", "Counter::increment(int)">>

\* The failure modes of C2, read off the input and the history.
TooShort == Len(Trim(literal)) < 4

ParenMissing ==
    LET r == SignatureRange(literal)
        sig == Slice(literal, r.beg, r.end)
    IN \/ ~(\E i \in 1..Len(sig) : sig[i] = ")")
       \/ \E i \in 1..2 : i <= Len(sig) /\ sig[i] = "("

ScanHitEnd == signature # <<>> /\ searchPos = Len(signature)

TrailingCharacters == ~filtered /\ signature # <<>> /\ argPos # Len(signature)

NoneLocated == located = <<>>

NoneSurviving == candidates = <<>>

\* C2: a finished attempt has called registerUse exactly once, with the
\* resolved declaration, when it resolved, and never when it did not; no call
\* is made before the end; every failure mode ends in NoMatch without a call.
C2_RegisterUseOnceOnSuccess ==
    /\ pc # "done" => uses = <<>>
    /\ pc = "done" =>
          /\ used # NoMethod => uses = <<used>>
          /\ used = NoMethod => uses = <<>>
          /\ (TooShort \/ ParenMissing \/ ScanHitEnd \/ TrailingCharacters
                \/ NoneLocated \/ NoneSurviving) => NoMatch /\ uses = <<>>

C2_Witness ==
    /\ pc = "done"
    /\ literal = <<"1", "f", "(", "i", "<", "i", ")">>
    /\ ScanHitEnd
    /\ located # <<>>
    /\ uses = <<>>

\* a is b with some elements removed, the others in the same order.
RECURSIVE IsSubsequence(_, _)
IsSubsequence(a, b) ==
    IF a = <<>> THEN TRUE
    ELSE IF b = <<>> THEN FALSE
    ELSE IF Head(a) = Head(b) THEN IsSubsequence(Tail(a), Tail(b))
    ELSE IsSubsequence(a, Tail(b))

InResolver == pc \in {"scan", "prune", "filter", "register"}

\* C3: from the return of the locator to the end of the resolution, every
\* step leaves in the candidate set a sub-sequence of what it held before
\* (nothing added, order kept, size not growing), and an empty set stays empty.
C3_MonotonicPruning ==
    [][InResolver =>
          /\ IsSubsequence(candidates', candidates)
          /\ Len(candidates') <= Len(candidates)
          /\ IsSubsequence(candidates', located)
          /\ (candidates = <<>> => candidates' = <<>>)]_vars

\* A pruning pass and the final filter have each removed a candidate and one
\* is left.
C3_Witness ==
    /\ pc = "register"
    /\ objClass = "G"
    /\ literal = <<"1", "f", "(", "i", ")">>
    /\ located = <<"G::f(i,i)", "G::f()", "G::f(i)", "G::f(i<>)", "G::f(i,i=0)">>
    /\ candidates = <<"G::f(i)", "G::f(i,i=0)">>

\* The fragment of range r of the signature compares equal to parameter n of m.
FragmentMatches(m, n, r) ==
    /\ getNumParams(m) >= n + 1
    /\ TypeTextMatches(signature \o tail, r.beg, r.end, TypeString(m, n))

\* m passes every per-argument comparison and the final filter.
Passes(m) ==
    /\ \A i \in 1..Len(args) : FragmentMatches(m, i - 1, args[i])
    /\ \/ getMinRequiredArguments(m) <= Len(args)
       \/ /\ getNumParams(m) = Len(args) + 1
          /\ getAsString(getParamType(m, Len(args))) = QPrivateSignal

PassingPositions == {i \in 1..Len(located) : Passes(located[i])}

\* C4: when the string was tokenized to its end, the attempt resolves to the
\* first located candidate, in the locator's order, that passes every
\* comparison and the final filter; it ends in NoMatch only if none passes.
C4_FirstPassingCandidate ==
    pc = "done" /\ filtered =>
        IF PassingPositions = {}
        THEN used = NoMethod
        ELSE used = located[CHOOSE i \in PassingPositions : \A j \in PassingPositions : i <= j]

\* Two located candidates pass, one of the target class and one of its base;
\* the one of the target class is used.
C4_Witness ==
    /\ pc = "done" /\ filtered
    /\ objClass = "Derived"
    /\ located = <<"Derived::f(int)", "Base::f(int)", "Base::f()">>
    /\ PassingPositions = {1, 2}
    /\ used = "Derived::f(int)"

UnsignedSp == <<"u">> \o NsignedSp

\* The texts T the comparison is tried on.
ComparedTexts == {T_int, T_long}

\* C5, as stated: "unsigned T" compared with T is judged equal, whichever of
\* the two is the argument fragment and whichever the printed parameter type.
C5_UnsignedInsertable ==
    \A c \in compared : \A t \in ComparedTexts :
        /\ c.arg = UnsignedSp \o t /\ c.type = t => c.equal
        /\ c.arg = t /\ c.type = UnsignedSp \o t => c.equal

\* C5, amended: what is skipped is the 8-character sequence "nsigned ", in
\* either operand, where the two current characters differ, neither is a
\* space and the operand's current character is 'n': "unsigned T" and "uT"
\* are judged equal both ways ("unsigned int" and "uint"), while "unsigned T"
\* and T are judged unequal both ways ("unsigned int" and "int").
C5_NsignedSkippable ==
    \A c \in compared : \A t \in ComparedTexts :
        /\ c.arg = UnsignedSp \o t /\ c.type = <<"u">> \o t => c.equal
        /\ c.arg = <<"u">> \o t /\ c.type = UnsignedSp \o t => c.equal
        /\ c.arg = UnsignedSp \o t /\ c.type = t => ~c.equal
        /\ c.arg = t /\ c.type = UnsignedSp \o t => ~c.equal

C5_Witness ==
    /\ [arg |-> T_unsigned_int, type |-> T_uint, equal |-> TRUE] \in compared
    /\ [arg |-> T_unsigned_int, type |-> T_int, equal |-> FALSE] \in compared
    /\ used = "U::t(uint)"

Elements(q) == {q[i] : i \in 1..Len(q)}

\* C6: the final filter with n supplied arguments keeps a candidate whose
\* minimum required argument count exceeds n if and only if it declares
\* exactly n+1 parameters and the printed type of parameter n is
\* "QPrivateSignal"; it keeps every candidate requiring at most n arguments.
C6_FinalFilter ==
    [][pc = "filter" /\ filtered' =>
          \A m \in Elements(candidates) :
              LET n == Len(args)
                  kept == m \in Elements(candidates')
              IN /\ getMinRequiredArguments(m) > n =>
                       (kept <=> /\ getNumParams(m) = n + 1
                                 /\ getAsString(getParamType(m, n)) = QPrivateSignal)
                 /\ getMinRequiredArguments(m) <= n => kept]_vars

\* One argument supplied: g(int, QPrivateSignal) is kept by the filter.
C6_Witness ==
    /\ pc = "register"
    /\ objClass = "S"
    /\ Len(args) = 1
    /\ used = "S::g(int,QPrivateSignal)"
    /\ getMinRequiredArguments(used) = 2

\* C7, as stated: A has no base and no slotName, A::d_func returns B*, B
\* declares slotName(int); resolving the string "slotName(int)" against A
\* yields B::slotName.
C7_BareSignature ==
    pc = "done" /\ objClass = "A" /\ charWidth = 1
        /\ literal = SigText(<<>>, N_slotName, T_int)
    => Resolved("B::slotName(int)")

\* C7, amended: it does when the string carries the one-character code
\* before the name ("1slotName(int)"), after one redirection through d_func;
\* the bare string yields NoMatch.
C7_MarkedSignature ==
    pc = "done" /\ objClass = "A" /\ charWidth = 1 =>
        /\ \A c \in MarkerCodes :
              literal = SigText(<<c>>, N_slotName, T_int)
                 => Resolved("B::slotName(int)") /\ nRedirect = 1
        /\ literal = SigText(<<>>, N_slotName, T_int) => NoMatch

C7_Witness ==
    /\ objClass = "A"
    /\ literal = SigText(<<"2">>, N_slotName, T_int)
    /\ Resolved("B::slotName(int)")
    /\ uses = <<"B::slotName(int)">>

\* C8: the walk of the locator is redirected through d_func at most once.
C8_AtMostOneRedirection == nRedirect <= 1

\* C9: the walk of the locator ends.
C9_LocatorTerminates == (pc = "lookup") ~> (pc # "lookup")

\* What an iteration of the walk over classIt finds.
AccessorSeen ==
    \/ d_func # NoMethod
    \/ \E m \in Elements(ClassTable[classIt].methods) :
          /\ MethodTable[m].ident
          /\ MethodTable[m].name = N_d_func
          /\ ~MethodTable[m].retNull

NoFurtherBase == ClassTable[classIt].numBases = 0 \/ ClassTable[classIt].base = NoClass

FirstBaseUndefined ==
    /\ ClassTable[classIt].numBases > 0
    /\ ClassTable[classIt].base # NoClass
    /\ ~ClassTable[ClassTable[classIt].base].defined

WalkIteration == pc = "lookup" /\ pc' = "lookup"

\* C10, as stated: when the chain ends without a collected candidate and an
\* accessor was seen, the walk is redirected, whether the chain ends at a
\* class without further base or at an undefined first base.
C10_RedirectsAtBothEnds ==
    [][WalkIteration /\ AccessorSeen /\ candidates' = <<>>
          /\ (NoFurtherBase \/ FirstBaseUndefined)
       => redirected']_vars

\* C10, amended: the walk is redirected exactly when an accessor was seen, no
\* candidate is collected and the class has no further base; at an undefined
\* first base it is not redirected: the walk moves to that class and returns
\* from there what it has collected (nothing).
C10_RedirectsAtNoFurtherBase ==
    [][/\ WalkIteration =>
             /\ redirected' <=> (AccessorSeen /\ candidates' = <<>> /\ NoFurtherBase)
             /\ FirstBaseUndefined => ~redirected' /\ classIt' = ClassTable[classIt].base
       /\ pc = "lookup" /\ classIt # NoClass /\ ~WalkContinues(classIt) =>
             pc' = "scan" /\ located' = candidates /\ nRedirect' = nRedirect]_vars

\* The walk from D reached D's undefined first base with the accessor seen
\* and nothing collected, and returned without redirection.
C10_Witness ==
    /\ pc = "scan"
    /\ objClass = "D"
    /\ classIt = "Und"
    /\ d_func = "D::d_func"
    /\ located = <<>>
    /\ nRedirect = 0

\* Grouping of the argument list, read off the text: the depth of '(' '[' '{'
\* groups open at position p, counted from position from, and the depth of
\* '<' '>' groups, an angle bracket counting only where the other depth is 0.
Openers == {"(", "[", "{"}
Closers == {")", "]", "}"}

ParenDepthAt(sig, from, p) ==
    Cardinality({i \in from..(p - 1) : At(sig, i) \in Openers})
        - Cardinality({i \in from..(p - 1) : At(sig, i) \in Closers})

AngleDepthAt(sig, from, p) ==
    Cardinality({i \in from..(p - 1) : At(sig, i) = "<" /\ ParenDepthAt(sig, from, i) = 0})
        - Cardinality({i \in from..(p - 1) : At(sig, i) = ">" /\ ParenDepthAt(sig, from, i) = 0})

InsideGroup(sig, from, p) == ParenDepthAt(sig, from, p) > 0 \/ AngleDepthAt(sig, from, p) > 0

\* Every group of the argument list is closed, in order, before the final ')'.
Balanced(sig, from) ==
    /\ Len(sig) > from
    /\ At(sig, Len(sig) - 1) = ")"
    /\ ParenDepthAt(sig, from, Len(sig) - 1) = 0
    /\ AngleDepthAt(sig, from, Len(sig) - 1) = 0
    /\ \A p \in from..(Len(sig) - 1) :
          ParenDepthAt(sig, from, p) >= 0 /\ AngleDepthAt(sig, from, p) >= 0

ArgumentsStart == Find(signature, "(") + 1

Fragment == Slice(signature, argument.beg, argument.end)

\* C11: in a signature whose groups are balanced, the ',' or ')' taken as the
\* end of a fragment never lies inside a '(' '[' '{' group or a '<' '>' group:
\* "QMap<int,QString>,int" gives the fragments "QMap<int,QString>" and "int",
\* and "void(*)(int,int)" gives one fragment.
C11_SplitsAtTopLevelOnly ==
    pc = "prune" /\ Balanced(signature, ArgumentsStart) =>
        /\ ~InsideGroup(signature, ArgumentsStart, searchPos)
        /\ literal = SigText(<<"1">>, N_f, A_QMap \o <<",">> \o T_int)
              => Fragment \in {A_QMap, T_int}
        /\ literal = SigText(<<"1">>, N_f, A_fnptr) => Fragment = A_fnptr

\* C12: at every step of the comparison loop both cursors are within their
\* operand, and where the loop body runs the characters it reads at the
\* cursors lie before the end of the operands.
C12_CursorsWithinOperands ==
    \A v \in visited :
        /\ v.sigBeg <= v.sigIt /\ v.sigIt <= v.sigEnd
        /\ 0 <= v.parIt /\ v.parIt <= v.parEnd
        /\ v.body => v.sigIt < v.sigEnd /\ v.parIt < v.parEnd

====
